---- MODULE Spec2Model ----
(***************************************************************************)
(* Model catalog of the oms web-service: ModelCatalog.RefreshSqlite,       *)
(* ModelCatalog.Close and the read-only queries, as a state machine of     *)
(* concurrent callers sharing one catalog guarded by mc.theLock.           *)
(*                                                                         *)
(* Strings are sequences of byte values (ASCII codes), so that             *)
(* sort.Strings, filepath.Ext, strings.EqualFold and filepath.Dir are      *)
(* computed as the Go library computes them.                               *)
(***************************************************************************)
EXTENDS Integers, Sequences, FiniteSets, TLC

\* ------------------------------------------------------------------ bounds
\* number of goroutines calling the methods of the catalog concurrently
NProcs == 2
\* number of catalog operations invoked in one behaviour of concurrent callers
MaxOps == 3
\* number of catalog operations invoked in one behaviour of a single caller
MaxSeqOps == 4
\* model rows of the store and operations in the index lookups
MaxRows == 3
MaxLookupOps == 1

Procs == 1..NProcs
NoProc == 0

\* ----------------------------------------------------------------- strings
\* ""  "."  "m"  "x"  "l"  "q"
sEmpty == << >>
sDot == <<46>>
sModels == <<109>>
sMissing == <<120>>
sLogs == <<108>>
sNoLogs == <<113>>
\* ".sqlite"
sSqliteExt == <<46, 115, 113, 108, 105, 116, 101>>
\* "m/a.sqlite"  "m/b.sqlite"  "m/a/c.SQLITE"  "m/a"  "m/r.txt"
pA == <<109, 47, 97>> \o sSqliteExt
pB == <<109, 47, 98>> \o sSqliteExt
pC == <<109, 47, 97, 47, 99, 46, 83, 81, 76, 73, 84, 69>>
pDirA == <<109, 47, 97>>
pTxt == <<109, 47, 114, 46, 116, 120, 116>>

Min(a, b) == IF a < b THEN a ELSE b

\* Go string comparison s < t: byte-wise lexicographic, a proper prefix is less
StrLess(s, t) ==
    \/ \E i \in 1..Min(Len(s), Len(t)) :
          /\ s[i] < t[i]
          /\ \A j \in 1..(i - 1) : s[j] = t[j]
    \/ /\ Len(s) < Len(t)
       /\ \A j \in 1..Len(s) : s[j] = t[j]

\* insert string x into the ascending sequence lst
RECURSIVE InsertSorted(_, _)
InsertSorted(x, lst) ==
    IF lst = << >> THEN <<x>>
    ELSE IF StrLess(Head(lst), x) THEN <<Head(lst)>> \o InsertSorted(x, Tail(lst))
    ELSE <<x>> \o lst

\* the path list left in the order of the walk
SortStringsNone(lst) == lst

\* sort.Strings(pathLst): ascending byte-wise order
RECURSIVE SortStrings(_)
SortStrings(lst) ==
    IF lst = << >> THEN << >>
    ELSE InsertSorted(Head(lst), SortStrings(Tail(lst)))

\* index of the last byte of s equal to c at or before position i, 0 if none
RECURSIVE LastIndexFrom(_, _, _)
LastIndexFrom(s, c, i) ==
    IF i = 0 THEN 0
    ELSE IF s[i] = c THEN i
    ELSE LastIndexFrom(s, c, i - 1)

\* filepath.Ext(path): suffix starting at the last dot of the last path element
Ext(path) ==
    LET slash == LastIndexFrom(path, 47, Len(path))
        dot == LastIndexFrom(path, 46, Len(path))
    IN IF dot > slash THEN SubSeq(path, dot, Len(path)) ELSE << >>

\* ASCII case folding of one byte
FoldByte(b) == IF b >= 65 /\ b <= 90 THEN b + 32 ELSE b

\* strings.EqualFold(s, t) on ASCII strings
EqualFold(s, t) ==
    /\ Len(s) = Len(t)
    /\ \A i \in 1..Len(s) : FoldByte(s[i]) = FoldByte(t[i])

\* filepath.Dir(path): all but the last element of a clean path
Dir(path) ==
    LET slash == LastIndexFrom(path, 47, Len(path))
    IN IF slash = 0 THEN sDot
       ELSE IF slash = 1 THEN <<47>>
       ELSE SubSeq(path, 1, slash - 1)

\* ------------------------------------------------------------------ errors
NoErr == [e |-> "nil", c |-> 0]
ErrNotExist == [e |-> "model directory not exist", c |-> 0]
ErrList == [e |-> "fail to list model directory", c |-> 0]
\* error returned by dbConn.Close() of connection c
CloseErr(c) == [e |-> "close", c |-> c]

\* ------------------------------------------------------------- environment
\* directories for which isDirExist returns nil
ExistingDirs == {sModels, sLogs}

\* isDirExist(dirPath) == nil
isDirExist(dirPath) == dirPath \in ExistingDirs

\* one model_dic row
Row(digest, name, defLang) ==
    [Digest |-> digest, Name |-> name, DefaultLangCode |-> defLang]

Langs == <<"en", "fr", "de">>

\* a path reported by filepath.Walk together with what the store layer
\* answers for it: walkErr is the err argument of the walk callback,
\* openOk the outcome of db.Open, schemaOk of db.OpenmppSchemaVersion
\* (no error and nv >= db.MinSchemaVersion), dicErr / dicLst of
\* db.GetModelList, langErr / langs of db.GetLanguages (langErr covers
\* err != nil or ls == nil), closeFails of dbConn.Close
File(path, walkErr, openOk, schemaOk, dicErr, dicLst, langErr, closeFails) ==
    [path |-> path, walkErr |-> walkErr, openOk |-> openOk,
     schemaOk |-> schemaOk, dicErr |-> dicErr, dicLst |-> dicLst,
     langErr |-> langErr, langs |-> Langs, closeFails |-> closeFails]

\* a directory or file the walk reports without error
Plain(path) == File(path, FALSE, TRUE, TRUE, FALSE, << >>, FALSE, FALSE)
\* a path the walk reports with an error
Broken(path) == File(path, TRUE, TRUE, TRUE, FALSE, << >>, FALSE, FALSE)
\* a valid store with the model rows dicLst
Store(path, dicLst, closeFails) ==
    File(path, FALSE, TRUE, TRUE, FALSE, dicLst, FALSE, closeFails)

\* the disk states a refresh can find under the model directory "m",
\* each as the sequence of paths in the order the walk reports them
Disks ==
    << \* the same digest in two stores, walk order differs from path order,
       \* two models accepted from one store
       << Plain(sModels), Plain(pDirA),
          Store(pC, << Row("D1", "Road", "fr") >>, FALSE),
          Store(pA, << Row("D1", "D2", "en"), Row("D2", "Rail", "fr") >>, FALSE),
          Plain(pTxt) >>,
       \* one store listing the same digest in two rows, close fails
       << Plain(sModels),
          Store(pB, << Row("D3", "Road", "de"), Row("D3", "Road2", "xx") >>, TRUE) >>,
       \* two stores reported in reverse path order, close fails on both,
       \* two models of one name, a default language the store does not list
       << Plain(sModels),
          Store(pB, << Row("D1", "Road", "fr"), Row("D2", "Road", "xx") >>, TRUE),
          Store(pA, << Row("D1", "Road", "en") >>, TRUE) >>,
       \* a store that cannot be opened, an incompatible store, a valid store
       << Plain(sModels),
          File(pA, FALSE, FALSE, TRUE, FALSE, << Row("D1", "Road", "en") >>, FALSE, FALSE),
          File(pC, FALSE, TRUE, FALSE, FALSE, << Row("D1", "Road", "en") >>, FALSE, FALSE),
          Store(pB, << Row("D1", "Road", "en") >>, FALSE) >>,
       \* an empty store, a store without languages, a store without model list
       << Plain(sModels),
          Store(pA, << >>, FALSE),
          File(pC, FALSE, TRUE, TRUE, FALSE, << Row("D2", "Rail", "en") >>, TRUE, FALSE),
          File(pB, FALSE, TRUE, TRUE, TRUE, << Row("D2", "Rail", "en") >>, FALSE, FALSE) >>,
       \* the model directory itself cannot be read
       << Broken(sModels) >>,
       \* a sub-directory cannot be read
       << Plain(sModels), Store(pB, << Row("D2", "Rail", "en") >>, FALSE),
          Broken(pDirA) >> >>

DiskIds == 1..Len(Disks)

\* the file record of path fp on disk dk
FileAt(dk, fp) ==
    LET i == CHOOSE i \in 1..Len(Disks[dk]) : Disks[dk][i].path = fp
    IN Disks[dk][i]

\* ----------------------------------------------------------------- walking
\* filepath.Walk with the callback of RefreshSqlite: the callback returns the
\* error it is given, which stops the walk; otherwise it collects the paths
\* whose extension is .sqlite in any letter case
RECURSIVE WalkFrom(_, _, _)
WalkFrom(files, i, acc) ==
    IF i > Len(files) THEN [err |-> FALSE, pathLst |-> acc]
    ELSE IF files[i].walkErr THEN [err |-> TRUE, pathLst |-> acc]
    ELSE IF EqualFold(Ext(files[i].path), sSqliteExt)
         THEN WalkFrom(files, i + 1, Append(acc, files[i].path))
         ELSE WalkFrom(files, i + 1, acc)

Walk(dk) == WalkFrom(Disks[dk], 1, << >>)

\* ------------------------------------------------------------- store layer
\* a connection handle as returned by db.Open. History kept with it:
\* store is the file it was opened on, closes counts the calls of Close()
\* on it, reads the calls of db.GetModelList and db.GetLanguages on it,
\* lateReads those of them made after a Close(), closedAt is, for a
\* connection no entry carried, the number of connections opened so far
\* at its first Close(), installed records
\* whether an entry of the live registry ever carried it, batch is the
\* first connection handle of the refresh that opened it, tearer the
\* caller closing it inside its locked section (TornDown once that
\* section is over)
NewConn(f) ==
    [path |-> f.path, closeFails |-> f.closeFails, closes |-> 0,
     installed |-> FALSE, store |-> f, reads |-> 0, lateReads |-> 0,
     closedAt |-> 0, batch |-> 0, tearer |-> NoProc]

\* dbConn.Close() on connection c
ConnClose(cs, c) ==
    [cs EXCEPT ![c].closes = @ + 1,
               ![c].closedAt = IF cs[c].closes = 0 /\ ~cs[c].installed
                               THEN Len(cs) ELSE @]

\* mark of a connection whose teardown is over
TornDown == NProcs + 1

\* the connections a refresh opened on top of old, marked as one batch
SetBatch(old, cs) ==
    [c \in 1..Len(cs) |->
       IF c > Len(old) THEN [cs[c] EXCEPT !.batch = Len(old) + 1] ELSE cs[c]]

\* connection c is being closed by caller p inside its locked section
TearBy(cs, c, p) == [cs EXCEPT ![c].tearer = p]

\* the locked section of caller p is over
TearDone(cs, p) ==
    [c \in 1..Len(cs) |->
       IF cs[c].tearer = p THEN [cs[c] EXCEPT !.tearer = TornDown] ELSE cs[c]]

\* a query sent on connection c by db.GetModelList or db.GetLanguages
ConnRead(cs, c) ==
    [cs EXCEPT ![c].reads = @ + 1,
               ![c].lateReads = IF cs[c].closes > 0 THEN @ + 1 ELSE @]

\* result of dbConn.Close() on connection c
ConnCloseErr(cs, c) == IF cs[c].closeFails THEN CloseErr(c) ELSE NoErr

\* db.GetModelList(dbc): fails on a closed connection
GetModelList(f, cs, c) ==
    IF f.dicErr \/ cs[c].closes > 0 THEN [err |-> TRUE, dicLst |-> << >>]
    ELSE [err |-> FALSE, dicLst |-> f.dicLst]

\* db.GetLanguages(dbc): fails on a closed connection
GetLanguages(f, cs, c) ==
    IF f.langErr \/ cs[c].closes > 0 THEN [err |-> TRUE, langs |-> << >>]
    ELSE [err |-> FALSE, langs |-> f.langs]

\* model languages list in the order of the store
LangCodesInOrder(langs, k, defLang, ml) == langs

\* ------------------------------------------------------------ build phase
\* model languages list, starting from the default language
RECURSIVE LangCodes(_, _, _, _)
LangCodes(langs, k, defLang, ml) ==
    IF k > Len(langs) THEN ml
    ELSE IF langs[k] = defLang
         THEN LangCodes(langs, k + 1, defLang, <<langs[k]>> \o ml)
         ELSE LangCodes(langs, k + 1, defLang, Append(ml, langs[k]))

\* a digest check that finds nothing
DigestExistsNever(mLst, digest) == FALSE

\* same digest already exist in model list
DigestExists(mLst, digest) ==
    \E k \in 1..Len(mLst) : mLst[k].digest = digest

\* the modelDef appended for one model_dic row
ModelDef(row, c, d, logDir, isLogDir, langs) ==
    [digest |-> row.Digest, name |-> row.Name, dbConn |-> c, binDir |-> d,
     logDir |-> logDir, isLogDir |-> isLogDir,
     defLang |-> row.DefaultLangCode,
     langCodes |-> LangCodes(langs, 1, row.DefaultLangCode, << >>)]

\* dicLoop: append to list of models if not already exist
RECURSIVE AppendRows(_, _, _, _, _, _, _, _)
AppendRows(mLst, dicLst, idx, c, d, logDir, isLogDir, langs) ==
    IF idx > Len(dicLst) THEN mLst
    ELSE IF DigestExists(mLst, dicLst[idx].Digest)
         THEN AppendRows(mLst, dicLst, idx + 1, c, d, logDir, isLogDir, langs)
         ELSE AppendRows(Append(mLst, ModelDef(dicLst[idx], c, d, logDir, isLogDir, langs)),
                         dicLst, idx + 1, c, d, logDir, isLogDir, langs)

\* a probe that accepts a store whose languages cannot be read
ProbeStoreAnyLanguages(f, cs, mLst, logDir, isLogDir) ==
    IF ~f.openOk THEN [conns |-> cs, mLst |-> mLst]
    ELSE
      LET c == Len(cs) + 1
          cs1 == Append(cs, NewConn(f))
          cs2 == IF f.schemaOk THEN cs1 ELSE ConnClose(cs1, c)
          dic == GetModelList(f, cs2, c)
          cs3 == ConnRead(cs2, c)
      IN IF dic.err \/ Len(dic.dicLst) <= 0
         THEN [conns |-> ConnClose(cs3, c), mLst |-> mLst]
         ELSE [conns |-> ConnRead(cs3, c),
               mLst |-> AppendRows(mLst, dic.dicLst, 1, c, Dir(f.path),
                                   logDir, isLogDir, f.langs)]

\* a probe that skips a store without models or without languages but
\* leaves its connection open
ProbeStoreNoClose(f, cs, mLst, logDir, isLogDir) ==
    IF ~f.openOk THEN [conns |-> cs, mLst |-> mLst]
    ELSE
      LET c == Len(cs) + 1
          cs1 == Append(cs, NewConn(f))
          cs2 == IF f.schemaOk THEN cs1 ELSE ConnClose(cs1, c)
          dic == GetModelList(f, cs2, c)
          cs3 == ConnRead(cs2, c)
      IN IF dic.err \/ Len(dic.dicLst) <= 0
         THEN [conns |-> cs3, mLst |-> mLst]
         ELSE LET ls == GetLanguages(f, cs3, c)
                  cs4 == ConnRead(cs3, c)
              IN IF ls.err
                 THEN [conns |-> cs4, mLst |-> mLst]
                 ELSE [conns |-> cs4,
                       mLst |-> AppendRows(mLst, dic.dicLst, 1, c, Dir(f.path),
                                           logDir, isLogDir, ls.langs)]

\* a probe that goes on with the model rows of an incompatible store after
\* closing its connection
ProbeStoreIncompatibleKept(f, cs, mLst, logDir, isLogDir) ==
    IF ~f.openOk THEN [conns |-> cs, mLst |-> mLst]
    ELSE
      LET c == Len(cs) + 1
          cs1 == Append(cs, NewConn(f))
          cs2 == IF f.schemaOk THEN cs1 ELSE ConnClose(cs1, c)
      IN IF f.dicErr \/ Len(f.dicLst) <= 0 \/ f.langErr
         THEN [conns |-> ConnClose(ConnRead(cs2, c), c), mLst |-> mLst]
         ELSE [conns |-> ConnRead(ConnRead(cs2, c), c),
               mLst |-> AppendRows(mLst, f.dicLst, 1, c, Dir(f.path),
                                   logDir, isLogDir, f.langs)]

\* one iteration of the loop over pathLst: open the store f, check it, read
\* its models and languages; the result is the connection table and the
\* model list after the iteration
ProbeStore(f, cs, mLst, logDir, isLogDir) ==
    IF ~f.openOk THEN [conns |-> cs, mLst |-> mLst]
    ELSE
      LET c == Len(cs) + 1
          cs1 == Append(cs, NewConn(f))
          cs2 == IF f.schemaOk THEN cs1 ELSE ConnClose(cs1, c)
          d == Dir(f.path)
          dic == GetModelList(f, cs2, c)
          cs3 == ConnRead(cs2, c)
      IN IF dic.err \/ Len(dic.dicLst) <= 0
         THEN [conns |-> ConnClose(cs3, c), mLst |-> mLst]
         ELSE LET ls == GetLanguages(f, cs3, c)
                  cs4 == ConnRead(cs3, c)
              IN IF ls.err
                 THEN [conns |-> ConnClose(cs4, c), mLst |-> mLst]
                 ELSE [conns |-> cs4,
                       mLst |-> AppendRows(mLst, dic.dicLst, 1, c, d,
                                           logDir, isLogDir, ls.langs)]

\* ------------------------------------------------------------------ state
VARIABLES
    modelDir,         \* mc.modelDir
    isDirEnabled,     \* mc.isDirEnabled
    modelLogDir,      \* mc.modelLogDir
    isLogDirEnabled,  \* mc.isLogDirEnabled
    modelLst,         \* mc.modelLst
    theLock,          \* mc.theLock: the caller holding it, NoProc if free
    conns,            \* every connection db.Open returned, by handle
    pc,               \* position of each caller
    loc,              \* arguments, locals and result of each caller
    nOps,             \* number of operations invoked so far
    lastCommit        \* history: the catalog as the last Refresh or Close left it

vars == <<modelDir, isDirEnabled, modelLogDir, isLogDirEnabled, modelLst,
          theLock, conns, pc, loc, nOps, lastCommit>>

catalog == <<modelDir, isDirEnabled, modelLogDir, isLogDirEnabled, modelLst>>

\* the fields of the catalog as one value
CatalogNow ==
    [modelDir |-> modelDir, isDirEnabled |-> isDirEnabled,
     modelLogDir |-> modelLogDir, isLogDirEnabled |-> isLogDirEnabled,
     modelLst |-> modelLst]

Queries == {"allModels", "allModelDigests", "modelBasicByDigest",
            "getModelDir", "getModelLogDir"}

\* arguments a single caller passes, and the disks its refreshes find
ModelDirArgs == {sEmpty, sDot, sMissing, sModels}
LogDirArgs == {sEmpty, sLogs, sNoLogs}
DigestArgs == {"D2", "D3"}

\* arguments concurrent callers pass, and the disks their refreshes find
ConcModelDirArgs == {sMissing, sModels}
ConcLogDirArgs == {sEmpty, sLogs}
ConcDigestArgs == {"D2"}
ConcDiskIds == {1, 4}

\* locals of a caller that runs nothing
NoLoc ==
    [op |-> "none", sid |-> 0, modelDir |-> sEmpty, modelLogDir |-> sEmpty,
     isLogDir |-> FALSE, disk |-> 0, pathLst |-> << >>,
     mLst |-> << >>, k |-> 0, n |-> 0, digest |-> "", firstErr |-> NoErr,
     ret |-> NoErr, res |-> << >>,
      snap |-> << >>, ncl |-> 0, afterClose |-> FALSE,
     prevRet |-> NoErr, during |-> {}]

\* callers inside the discovery and build phase of RefreshSqlite
InBuild(p) == pc[p] = "r_build"

Init ==
    /\ modelDir = sEmpty
    /\ isDirEnabled = FALSE
    /\ modelLogDir = sEmpty
    /\ isLogDirEnabled = FALSE
    /\ modelLst = << >>
    /\ theLock = NoProc
    /\ conns = << >>
    /\ pc = [p \in Procs |-> "idle"]
    /\ loc = [p \in Procs |-> NoLoc]
    /\ nOps = 0
    /\ lastCommit = [kind |-> "init", ret |-> NoErr,
                     cat |-> [modelDir |-> sEmpty, isDirEnabled |-> FALSE,
                              modelLogDir |-> sEmpty, isLogDirEnabled |-> FALSE,
                              modelLst |-> << >>]]

\* locals of a caller whose operation op returned ret: the result is kept
Returned(op, ret) == [NoLoc EXCEPT !.ret = ret]

\* a lock that excludes nobody
CanLockAlways(p) == TRUE

\* mc.theLock.Lock() can return for caller p
CanLock(p) == theLock = NoProc

\* history: a Refresh or Close releases the lock and leaves the catalog cat
Commit(kind, ret, cat) ==
    lastCommit' = [kind |-> kind, ret |-> ret, cat |-> cat]

\* ------------------------------------------------------------ RefreshSqlite
\* a check of the model directory that does not look at the disk
IsModelDirAny(md) == md # sEmpty

\* model directory must exist
IsModelDir(md) == md # sEmpty /\ md # sDot /\ isDirExist(md)

\* model log directory is optional
IsLogDir(mld) == mld # sEmpty /\ mld # sDot /\ isDirExist(mld)

\* RefreshSqlite taking the lock on entry, before the directory scan
CallRefreshLocking(p, md, mld) ==
    /\ pc[p] = "idle"
    /\ CanLock(p)
    /\ theLock' = p
    /\ nOps' = nOps + 1
    /\ loc' = [loc EXCEPT ![p] =
                 [NoLoc EXCEPT !.op = "Refresh", !.sid = nOps + 1,
                               !.modelDir = md, !.modelLogDir = mld,
                               !.isLogDir = IsLogDir(mld)]]
    /\ pc' = [pc EXCEPT ![p] = "r_build"]
    /\ UNCHANGED <<catalog, conns, lastCommit>>

\* RefreshSqlite(md, mld) is called: model directory must exist, model log
\* directory is optional
CallRefresh(p, md, mld) ==
    /\ pc[p] = "idle"
    /\ nOps' = nOps + 1
    /\ IF IsModelDir(md)
       THEN /\ loc' = [loc EXCEPT ![p] =
                         [NoLoc EXCEPT !.op = "Refresh", !.sid = nOps + 1,
                                       !.modelDir = md, !.modelLogDir = mld,
                                       !.isLogDir = IsLogDir(mld)]]
            /\ pc' = [pc EXCEPT ![p] = "r_build"]
       ELSE /\ loc' = [loc EXCEPT ![p] = Returned("Refresh", ErrNotExist)]
            /\ pc' = [pc EXCEPT ![p] = "idle"]
    /\ UNCHANGED <<catalog, theLock, conns, lastCommit>>

\* the loop over pathLst from index i on: the connection table and the
\* model list after the last iteration
RECURSIVE BuildFrom(_, _, _, _, _, _, _)
BuildFrom(dk, pathLst, i, cs, mLst, logDir, isLogDir) ==
    IF i > Len(pathLst) THEN [conns |-> cs, mLst |-> mLst]
    ELSE LET r == ProbeStore(FileAt(dk, pathLst[i]), cs, mLst, logDir, isLogDir)
         IN BuildFrom(dk, pathLst, i + 1, r.conns, r.mLst, logDir, isLogDir)

\* get list of model/dir/*.sqlite files, sort it by path and make list of
\* models from model.sqlite files; nothing of the catalog is read or written
RefreshBuild(p, dk) ==
    /\ pc[p] = "r_build"
    /\ LET w == Walk(dk)
           lst == SortStrings(w.pathLst)
           r == BuildFrom(dk, lst, 1, conns, << >>, loc[p].modelLogDir, loc[p].isLogDir)
       IN IF w.err
          THEN /\ loc' = [loc EXCEPT ![p] = Returned("Refresh", ErrList)]
               /\ pc' = [pc EXCEPT ![p] = "idle"]
               /\ UNCHANGED conns
          ELSE /\ loc' = [loc EXCEPT ![p].disk = dk, ![p].pathLst = lst,
                                     ![p].mLst = r.mLst]
               /\ pc' = [pc EXCEPT ![p] = "r_lock"]
               /\ conns' = SetBatch(conns, r.conns)
    /\ UNCHANGED <<catalog, theLock, nOps, lastCommit>>

\* lock and update the model directory only
RefreshLockKeepLogDir(p) ==
    /\ pc[p] = "r_lock"
    /\ CanLock(p)
    /\ theLock' = p
    /\ modelDir' = loc[p].modelDir
    /\ isDirEnabled' = TRUE
    /\ loc' = [loc EXCEPT ![p].k = 1, ![p].n = Len(modelLst), ![p].snap = modelLst]
    /\ pc' = [pc EXCEPT ![p] = IF Len(modelLst) = 0 THEN "r_install" ELSE "r_close"]
    /\ UNCHANGED <<modelLogDir, isLogDirEnabled, modelLst, conns, nOps, lastCommit>>

\* lock and update model directories
RefreshLock(p) ==
    /\ pc[p] = "r_lock"
    /\ CanLock(p)
    /\ theLock' = p
    /\ modelDir' = loc[p].modelDir
    /\ isDirEnabled' = TRUE
    /\ modelLogDir' = loc[p].modelLogDir
    /\ isLogDirEnabled' = loc[p].isLogDir
    /\ loc' = [loc EXCEPT ![p].k = 1, ![p].n = Len(modelLst), ![p].snap = modelLst]
    /\ pc' = [pc EXCEPT ![p] = IF Len(modelLst) = 0 THEN "r_install" ELSE "r_close"]
    /\ UNCHANGED <<modelLst, conns, nOps, lastCommit>>

\* close one existing connection; a close error is logged only
RefreshCloseOld(p) ==
    /\ pc[p] = "r_close"
    /\ LET l == loc[p]
       IN IF l.k > Len(modelLst)
          THEN /\ pc' = [pc EXCEPT ![p] = "panic"]
               /\ UNCHANGED <<conns, loc>>
          ELSE LET c == modelLst[l.k].dbConn
               IN /\ conns' = TearBy(ConnClose(conns, c), c, p)
                  /\ loc' = [loc EXCEPT ![p].k = l.k + 1, ![p].ncl = l.ncl + 1]
                  /\ pc' = [pc EXCEPT ![p] =
                              IF l.k + 1 > l.n THEN "r_install" ELSE "r_close"]
    /\ UNCHANGED <<catalog, theLock, nOps, lastCommit>>

\* the connection table with every connection of lst marked as installed
MarkInstalled(cs, lst) ==
    [c \in 1..Len(cs) |->
       IF \E k \in 1..Len(lst) : lst[k].dbConn = c
       THEN [cs[c] EXCEPT !.installed = TRUE] ELSE cs[c]]

\* set new list of the models; the result is nil
RefreshInstall(p) ==
    /\ pc[p] = "r_install"
    /\ modelLst' = loc[p].mLst
    /\ conns' = MarkInstalled(conns, loc[p].mLst)
    /\ loc' = [loc EXCEPT ![p].ret = NoErr]
    /\ pc' = [pc EXCEPT ![p] = "r_unlock"]
    /\ UNCHANGED <<modelDir, isDirEnabled, modelLogDir, isLogDirEnabled,
                   theLock, nOps, lastCommit>>

\* the deferred mc.theLock.Unlock() and the return of RefreshSqlite
RefreshUnlock(p) ==
    /\ pc[p] = "r_unlock"
    /\ theLock' = NoProc
    /\ loc' = [loc EXCEPT ![p] = Returned("Refresh", loc[p].ret)]
    /\ pc' = [pc EXCEPT ![p] = "idle"]
    /\ Commit("Refresh", loc[p].ret, CatalogNow)
    /\ conns' = TearDone(conns, p)
    /\ UNCHANGED <<catalog, nOps>>

\* -------------------------------------------------------------------- Close
\* Close is called: lock the catalog
CallClose(p) ==
    /\ pc[p] = "idle"
    /\ CanLock(p)
    /\ theLock' = p
    /\ nOps' = nOps + 1
    /\ loc' = [loc EXCEPT ![p] =
                 [NoLoc EXCEPT !.op = "Close", !.sid = nOps + 1,
                               !.k = 1, !.n = Len(modelLst), !.snap = modelLst,
                               !.firstErr = NoErr,
                               !.afterClose = (lastCommit.kind = "Close"),
                               !.prevRet = lastCommit.ret,
                               !.during = {loc[q].sid : q \in {r \in Procs : InBuild(r)}}]]
    /\ pc' = [pc EXCEPT ![p] = IF Len(modelLst) = 0 THEN "c_clear" ELSE "c_close"]
    /\ UNCHANGED <<catalog, conns, lastCommit>>

\* the last error instead of the first
KeepLastErr(firstErr, err) == IF err # NoErr THEN err ELSE firstErr

\* the error Close remembers after a close that returned err
KeepFirstErr(firstErr, err) == IF firstErr = NoErr THEN err ELSE firstErr

\* close one existing db connection and remember the first error
CloseConn(p) ==
    /\ pc[p] = "c_close"
    /\ LET l == loc[p]
       IN IF l.k > Len(modelLst)
          THEN /\ pc' = [pc EXCEPT ![p] = "panic"]
               /\ UNCHANGED <<conns, loc>>
          ELSE LET c == modelLst[l.k].dbConn
               IN /\ conns' = TearBy(ConnClose(conns, c), c, p)
                  /\ loc' = [loc EXCEPT ![p].k = l.k + 1, ![p].ncl = l.ncl + 1,
                                        ![p].firstErr =
                                            KeepFirstErr(l.firstErr, ConnCloseErr(conns, c))]
                  /\ pc' = [pc EXCEPT ![p] =
                              IF l.k + 1 > l.n THEN "c_clear" ELSE "c_close"]
    /\ UNCHANGED <<catalog, theLock, nOps, lastCommit>>

\* a model list that is not cleared
NotCleared == modelLst

\* the model list Close leaves
ClearedList == << >>

\* clear model list; the result is the first error
CloseClear(p) ==
    /\ pc[p] = "c_clear"
    /\ modelLst' = ClearedList
    /\ loc' = [loc EXCEPT ![p].ret = loc[p].firstErr]
    /\ pc' = [pc EXCEPT ![p] = "c_unlock"]
    /\ UNCHANGED <<modelDir, isDirEnabled, modelLogDir, isLogDirEnabled,
                   theLock, conns, nOps, lastCommit>>

\* the deferred mc.theLock.Unlock() and the return of Close
CloseUnlock(p) ==
    /\ pc[p] = "c_unlock"
    /\ theLock' = NoProc
    /\ loc' = [loc EXCEPT ![p] = Returned("Close", loc[p].ret)]
    /\ pc' = [pc EXCEPT ![p] = "idle"]
    /\ Commit("Close", loc[p].ret, CatalogNow)
    /\ conns' = TearDone(conns, p)
    /\ UNCHANGED <<catalog, nOps>>

\* ------------------------------------------------------------------ queries
\* the modelBasic of a modelDef
Basic(m) ==
    [name |-> m.name, digest |-> m.digest, binDir |-> m.binDir,
     logDir |-> m.logDir, isLogDir |-> m.isLogDir]

\* modelBasic{}: the empty result
NoBasic ==
    [name |-> "", digest |-> "", binDir |-> sEmpty, logDir |-> sEmpty,
     isLogDir |-> FALSE]

\* indexByDigest: index (from zero) of the first model with that digest
indexByDigest(lst, digest) ==
    IF \E k \in 1..Len(lst) : lst[k].digest = digest
    THEN [idx |-> (CHOOSE k \in 1..Len(lst) :
                      /\ lst[k].digest = digest
                      /\ \A j \in 1..(k - 1) : lst[j].digest # digest) - 1,
          ok |-> TRUE]
    ELSE [idx |-> 0, ok |-> FALSE]

\* a query is called: lock the catalog; allModels and allModelDigests make
\* the result slice of len(mc.modelLst)
CallQuery(p, kind, digest) ==
    /\ pc[p] = "idle"
    /\ CanLock(p)
    /\ theLock' = p
    /\ nOps' = nOps + 1
    /\ loc' = [loc EXCEPT ![p] =
                 [NoLoc EXCEPT !.op = kind, !.sid = nOps + 1, !.digest = digest,
                               !.k = 1, !.n = Len(modelLst),
                               !.during = {loc[q].sid : q \in {r \in Procs : InBuild(r)}}]]
    /\ pc' = [pc EXCEPT ![p] =
                IF kind \in {"allModels", "allModelDigests"}
                THEN (IF Len(modelLst) = 0 THEN "q_ret" ELSE "q_copy")
                ELSE "q_read"]
    /\ UNCHANGED <<catalog, conns, lastCommit>>

\* allModels: copy one model into the result
AllModelsCopy(p) ==
    /\ pc[p] = "q_copy"
    /\ loc[p].op = "allModels"
    /\ LET l == loc[p]
       IN IF l.k > Len(modelLst)
          THEN /\ pc' = [pc EXCEPT ![p] = "panic"]
               /\ UNCHANGED loc
          ELSE /\ loc' = [loc EXCEPT ![p].k = l.k + 1,
                                     ![p].res = Append(l.res, Basic(modelLst[l.k]))]
               /\ pc' = [pc EXCEPT ![p] = IF l.k + 1 > l.n THEN "q_ret" ELSE "q_copy"]
    /\ UNCHANGED <<catalog, theLock, conns, nOps, lastCommit>>

\* allModelDigests: copy one digest into the result
AllModelDigestsCopy(p) ==
    /\ pc[p] = "q_copy"
    /\ loc[p].op = "allModelDigests"
    /\ LET l == loc[p]
       IN IF l.k > Len(modelLst)
          THEN /\ pc' = [pc EXCEPT ![p] = "panic"]
               /\ UNCHANGED loc
          ELSE /\ loc' = [loc EXCEPT ![p].k = l.k + 1,
                                     ![p].res = Append(l.res, modelLst[l.k].digest)]
               /\ pc' = [pc EXCEPT ![p] = IF l.k + 1 > l.n THEN "q_ret" ELSE "q_copy"]
    /\ UNCHANGED <<catalog, theLock, conns, nOps, lastCommit>>

\* modelBasicByDigest: find the model by digest
ModelBasicByDigest(p) ==
    /\ pc[p] = "q_read"
    /\ loc[p].op = "modelBasicByDigest"
    /\ LET r == indexByDigest(modelLst, loc[p].digest)
       IN loc' = [loc EXCEPT ![p].res =
                    IF r.ok THEN <<Basic(modelLst[r.idx + 1]), TRUE>>
                    ELSE <<NoBasic, FALSE>>]
    /\ pc' = [pc EXCEPT ![p] = "q_ret"]
    /\ UNCHANGED <<catalog, theLock, conns, nOps, lastCommit>>

\* getModelDir: model directory
GetModelDir(p) ==
    /\ pc[p] = "q_read"
    /\ loc[p].op = "getModelDir"
    /\ loc' = [loc EXCEPT ![p].res = <<modelDir, isDirEnabled>>]
    /\ pc' = [pc EXCEPT ![p] = "q_ret"]
    /\ UNCHANGED <<catalog, theLock, conns, nOps, lastCommit>>

\* getModelLogDir: model log directory
GetModelLogDir(p) ==
    /\ pc[p] = "q_read"
    /\ loc[p].op = "getModelLogDir"
    /\ loc' = [loc EXCEPT ![p].res = <<modelLogDir, isLogDirEnabled>>]
    /\ pc' = [pc EXCEPT ![p] = "q_ret"]
    /\ UNCHANGED <<catalog, theLock, conns, nOps, lastCommit>>

\* a lookup that returns the first model whose digest or name is dn
indexByNameOrDigest(lst, dn) ==
    IF \E k \in 1..Len(lst) : lst[k].digest = dn \/ lst[k].name = dn
    THEN [idx |-> (CHOOSE k \in 1..Len(lst) :
                      /\ (lst[k].digest = dn \/ lst[k].name = dn)
                      /\ \A j \in 1..(k - 1) :
                            lst[j].digest # dn /\ lst[j].name # dn) - 1,
          ok |-> TRUE]
    ELSE [idx |-> 0, ok |-> FALSE]

\* the loop of indexByDigestOrName from index k (from zero) on, n the index
\* of the first name found so far or -1
RECURSIVE indexByDigestOrNameFrom(_, _, _, _)
indexByDigestOrNameFrom(lst, dn, k, n) ==
    IF k >= Len(lst)
    THEN (IF n >= 0 THEN [idx |-> n, ok |-> TRUE] ELSE [idx |-> 0, ok |-> FALSE])
    ELSE IF lst[k + 1].digest = dn THEN [idx |-> k, ok |-> TRUE]
    ELSE indexByDigestOrNameFrom(lst, dn, k + 1,
                                 IF n < 0 /\ lst[k + 1].name = dn THEN k ELSE n)

\* indexByDigestOrName: if digest exist in model list then index by digest
\* else first index of name
indexByDigestOrName(lst, dn) == indexByDigestOrNameFrom(lst, dn, 0, -1)

\* the index lookups, used only inside of lock
Lookups == {"indexByDigest", "indexByDigestOrName"}

\* a caller holding the lock runs indexByDigest
IndexByDigest(p) ==
    /\ pc[p] = "q_read"
    /\ loc[p].op = "indexByDigest"
    /\ LET r == indexByDigest(modelLst, loc[p].digest)
       IN loc' = [loc EXCEPT ![p].res = <<r.idx, r.ok>>]
    /\ pc' = [pc EXCEPT ![p] = "q_ret"]
    /\ UNCHANGED <<catalog, theLock, conns, nOps, lastCommit>>

\* a caller holding the lock runs indexByDigestOrName
IndexByDigestOrName(p) ==
    /\ pc[p] = "q_read"
    /\ loc[p].op = "indexByDigestOrName"
    /\ LET r == indexByDigestOrName(modelLst, loc[p].digest)
       IN loc' = [loc EXCEPT ![p].res = <<r.idx, r.ok>>]
    /\ pc' = [pc EXCEPT ![p] = "q_ret"]
    /\ UNCHANGED <<catalog, theLock, conns, nOps, lastCommit>>

\* the deferred mc.theLock.Unlock() and the return of a query
QueryReturn(p) ==
    /\ pc[p] = "q_ret"
    /\ theLock' = NoProc
    /\ loc' = [loc EXCEPT ![p] = Returned(loc[p].op, NoErr)]
    /\ pc' = [pc EXCEPT ![p] = "idle"]
    /\ UNCHANGED <<catalog, conns, nOps, lastCommit>>

\* ------------------------------------------------------------ specification
\* the goroutines calling the methods of the catalog are interchangeable:
\* a new call of RefreshSqlite, Close or a query is made by the first
\* caller that runs nothing
FreeCaller(p) ==
    /\ pc[p] = "idle"
    /\ \A q \in Procs : q < p => pc[q] # "idle"

\* concurrent callers
Next ==
    \/ \E p \in Procs, md \in ConcModelDirArgs, mld \in ConcLogDirArgs :
          FreeCaller(p) /\ nOps < MaxOps /\ CallRefresh(p, md, mld)
    \/ \E p \in Procs, dk \in ConcDiskIds : RefreshBuild(p, dk)
    \/ \E p \in Procs : RefreshLock(p)
    \/ \E p \in Procs : RefreshCloseOld(p)
    \/ \E p \in Procs : RefreshInstall(p)
    \/ \E p \in Procs : RefreshUnlock(p)
    \/ \E p \in Procs : FreeCaller(p) /\ nOps < MaxOps /\ CallClose(p)
    \/ \E p \in Procs : CloseConn(p)
    \/ \E p \in Procs : CloseClear(p)
    \/ \E p \in Procs : CloseUnlock(p)
    \/ \E p \in Procs, kind \in Queries, digest \in ConcDigestArgs :
          FreeCaller(p) /\ nOps < MaxOps /\ CallQuery(p, kind, digest)
    \/ \E p \in Procs : AllModelsCopy(p)
    \/ \E p \in Procs : AllModelDigestsCopy(p)
    \/ \E p \in Procs : ModelBasicByDigest(p)
    \/ \E p \in Procs : GetModelDir(p)
    \/ \E p \in Procs : GetModelLogDir(p)
    \/ \E p \in Procs : QueryReturn(p)

Spec == Init /\ [][Next]_vars

\* a single caller invoking one operation after the other, over all
\* arguments and all disks
NextSeq ==
    \/ \E md \in ModelDirArgs, mld \in LogDirArgs :
          nOps < MaxSeqOps /\ CallRefresh(1, md, mld)
    \/ \E dk \in DiskIds : RefreshBuild(1, dk)
    \/ RefreshLock(1)
    \/ RefreshCloseOld(1)
    \/ RefreshInstall(1)
    \/ RefreshUnlock(1)
    \/ nOps < MaxSeqOps /\ CallClose(1)
    \/ CloseConn(1)
    \/ CloseClear(1)
    \/ CloseUnlock(1)
    \/ \E kind \in Queries, digest \in DigestArgs :
          /\ nOps < MaxSeqOps
          /\ (kind # "modelBasicByDigest" => digest = "D2")
          /\ CallQuery(1, kind, digest)
    \/ AllModelsCopy(1)
    \/ AllModelDigestsCopy(1)
    \/ ModelBasicByDigest(1)
    \/ GetModelDir(1)
    \/ GetModelLogDir(1)
    \/ QueryReturn(1)

SpecSeq == Init /\ [][NextSeq]_vars

\* the index lookups over the registry a Refresh installed from one store
\* m/a.sqlite: the model rows of the store, the tokens looked up
LookupRows == {Row(d, n, "en") : d \in {"D1", "D2", "D3"}, n \in {"D2", "Road"}}
LookupRowLists == UNION {[1..n -> LookupRows] : n \in 0..MaxRows}
TokenArgs == {"D2", "Road", "zz"}

InitLookup ==
    \E rows \in LookupRowLists :
        LET r == ProbeStore(Store(pA, rows, FALSE), << >>, << >>, sEmpty, FALSE)
        IN /\ modelDir = sModels
           /\ isDirEnabled = TRUE
           /\ modelLogDir = sEmpty
           /\ isLogDirEnabled = FALSE
           /\ modelLst = r.mLst
           /\ theLock = NoProc
           /\ conns = MarkInstalled(SetBatch(<< >>, r.conns), r.mLst)
           /\ pc = [p \in Procs |-> "idle"]
           /\ loc = [p \in Procs |-> NoLoc]
           /\ nOps = 0
           /\ lastCommit = [kind |-> "Refresh", ret |-> NoErr,
                            cat |-> [modelDir |-> sModels, isDirEnabled |-> TRUE,
                                     modelLogDir |-> sEmpty,
                                     isLogDirEnabled |-> FALSE,
                                     modelLst |-> r.mLst]]

NextLookup ==
    \/ \E kind \in Lookups, dn \in TokenArgs :
          nOps < MaxLookupOps /\ CallQuery(1, kind, dn)
    \/ IndexByDigest(1)
    \/ IndexByDigestOrName(1)
    \/ QueryReturn(1)

SpecLookup == InitLookup /\ [][NextLookup]_vars

\* goroutines calling RefreshSqlite(modelDir, modelLogDir) and Close() of
\* the catalog directly and concurrently, with the existing model directory
\* and every log directory argument, over the disk with a shared and a
\* leaked connection
RefreshCloseDiskIds == {1}

NextRefreshClose ==
    \/ \E p \in Procs, mld \in LogDirArgs :
          FreeCaller(p) /\ nOps < MaxOps /\ CallRefresh(p, sModels, mld)
    \/ \E p \in Procs, dk \in RefreshCloseDiskIds : RefreshBuild(p, dk)
    \/ \E p \in Procs : RefreshLock(p)
    \/ \E p \in Procs : RefreshCloseOld(p)
    \/ \E p \in Procs : RefreshInstall(p)
    \/ \E p \in Procs : RefreshUnlock(p)
    \/ \E p \in Procs : FreeCaller(p) /\ nOps < MaxOps /\ CallClose(p)
    \/ \E p \in Procs : CloseConn(p)
    \/ \E p \in Procs : CloseClear(p)
    \/ \E p \in Procs : CloseUnlock(p)

SpecRefreshClose == Init /\ [][NextRefreshClose]_vars

\* ================================================================= claims
\* positions in which a caller holds the catalog lock
Locked == {"r_close", "r_install", "r_unlock", "c_close", "c_clear", "c_unlock",
           "q_copy", "q_read", "q_ret"}

\* the close error of the first entry of lst, in registry order, whose
\* connection fails to close
FirstCloseErr(lst) ==
    IF \E k \in 1..Len(lst) : conns[lst[k].dbConn].closeFails
    THEN CloseErr(lst[CHOOSE k \in 1..Len(lst) :
                        /\ conns[lst[k].dbConn].closeFails
                        /\ \A j \in 1..(k - 1) : ~conns[lst[j].dbConn].closeFails].dbConn)
    ELSE NoErr

\* ---------------------------------------------------------------------- C1
\* C1: close is invoked exactly once on the connection of every registry
\* entry ever installed: never more than once, and at least once as soon as
\* the entry is no longer in the live registry and the lock is free.
C1_ClosedExactlyOnce ==
    \A c \in 1..Len(conns) :
        conns[c].installed =>
            /\ conns[c].closes <= 1
            /\ (theLock = NoProc /\ ~(\E k \in 1..Len(modelLst) : modelLst[k].dbConn = c)
                  => conns[c].closes >= 1)

\* ---------------------------------------------------------------------- C2
\* what a query returns on the catalog cat
QueryResult(op, digest, cat) ==
    LET lst == cat.modelLst
    IN CASE op = "allModels" -> [i \in 1..Len(lst) |-> Basic(lst[i])]
         [] op = "allModelDigests" -> [i \in 1..Len(lst) |-> lst[i].digest]
         [] op = "modelBasicByDigest" ->
               IF \E i \in 1..Len(lst) : lst[i].digest = digest
               THEN <<Basic(lst[CHOOSE i \in 1..Len(lst) :
                                  /\ lst[i].digest = digest
                                  /\ \A j \in 1..(i - 1) : lst[j].digest # digest]),
                      TRUE>>
               ELSE <<NoBasic, FALSE>>
         [] op = "getModelDir" -> <<cat.modelDir, cat.isDirEnabled>>
         [] op = "getModelLogDir" -> <<cat.modelLogDir, cat.isLogDirEnabled>>

\* C2: a query returns the catalog exactly as the last completed Refresh
\* installation or Close (or the construction) left it, and what a Refresh
\* leaves when it releases the lock is its own directories and its own
\* sequence in full.
C2_AtomicVisibility ==
    \A p \in Procs :
        /\ pc[p] = "q_ret" =>
              loc[p].res = QueryResult(loc[p].op, loc[p].digest, lastCommit.cat)
        /\ pc[p] = "r_unlock" =>
              CatalogNow = [modelDir |-> loc[p].modelDir, isDirEnabled |-> TRUE,
                            modelLogDir |-> loc[p].modelLogDir,
                            isLogDirEnabled |-> loc[p].isLogDir,
                            modelLst |-> loc[p].mLst]

\* a query returns the two models of the installed registry while another
\* Refresh is on its way
C2_Witness ==
    \E p \in Procs, q \in Procs :
        /\ pc[p] = "q_ret"
        /\ loc[p].op = "allModels"
        /\ Len(loc[p].res) = 2
        /\ pc[q] \in {"r_build", "r_lock"}

\* ---------------------------------------------------------------------- C3
\* no two entries of lst have the same digest
UniqueDigests(lst) ==
    \A i \in 1..Len(lst), j \in 1..Len(lst) : i # j => lst[i].digest # lst[j].digest

\* C3: no two entries of the live registry, nor of a sequence a Refresh has
\* built, have the same digest.
C3_DedupInvariant ==
    /\ UniqueDigests(modelLst)
    /\ \A p \in Procs : UniqueDigests(loc[p].mLst)

\* the registry built from the store that lists digest D3 in two rows is live
C3_Witness ==
    /\ theLock = NoProc
    /\ Len(modelLst) = 1
    /\ modelLst[1].digest = "D3"

\* ---------------------------------------------------------------------- C4
\* the files of disk dk that are stores and are probed successfully
GoodStores(dk) ==
    {i \in 1..Len(Disks[dk]) :
        LET f == Disks[dk][i]
        IN /\ EqualFold(Ext(f.path), sSqliteExt)
           /\ f.openOk /\ f.schemaOk /\ ~f.dicErr /\ f.dicLst # << >> /\ ~f.langErr}

\* store i of disk dk lists digest d
Lists(dk, i, d) ==
    \E r \in 1..Len(Disks[dk][i].dicLst) : Disks[dk][i].dicLst[r].Digest = d

\* the digests of the successfully probed stores of disk dk
GoodDigests(dk) ==
    UNION {{Disks[dk][i].dicLst[r].Digest : r \in 1..Len(Disks[dk][i].dicLst)} :
              i \in GoodStores(dk)}

\* the path of the first store, in path order, among the successfully probed
\* stores of disk dk that list digest d
FirstPath(dk, d) ==
    LET has == {i \in GoodStores(dk) : Lists(dk, i, d)}
        i == CHOOSE i \in has :
                \A j \in has : j # i => StrLess(Disks[dk][i].path, Disks[dk][j].path)
    IN Disks[dk][i].path

\* C4: the sequence a Refresh builds has, for every digest that a
\* successfully probed store lists, exactly one entry, and that entry's
\* connection and binDir are those of the store with the smallest path
\* among the successfully probed stores that list the digest.
C4_FirstWins ==
    \A p \in Procs :
        (pc[p] \in {"r_lock", "r_close", "r_install", "r_unlock"}) =>
            LET dk == loc[p].disk
                lst == loc[p].mLst
            IN \A d \in GoodDigests(dk) :
                  /\ Cardinality({k \in 1..Len(lst) : lst[k].digest = d}) = 1
                  /\ \A k \in 1..Len(lst) :
                        lst[k].digest = d =>
                            /\ conns[lst[k].dbConn].path = FirstPath(dk, d)
                            /\ lst[k].binDir = Dir(FirstPath(dk, d))

\* a Refresh has installed the registry of the disk on which the walk
\* reports m/a/c.SQLITE before m/a.sqlite and both list digest D1
C4_Witness ==
    \E p \in Procs :
        /\ pc[p] = "r_unlock"
        /\ loc[p].disk = 1
        /\ \E k \in 1..Len(modelLst) :
              modelLst[k].digest = "D1" /\ modelLst[k].binDir = sModels

\* ---------------------------------------------------------------------- C5
\* a model directory that is empty, or that does not exist
NoSuchDir(md) == md = sEmpty \/ md \notin ExistingDirs

\* the listing of disk dk fails at the model directory itself
RootListingFails(dk) == Disks[dk][1].path = sModels /\ Disks[dk][1].walkErr

\* C5: a Refresh of an empty or missing model directory, or one whose
\* directory listing fails at the root, returns an error and leaves the
\* entry sequence, the four directory fields and every connection unchanged.
C5_MissingDirRejected ==
    [][\A p \in Procs :
          /\ \A md \in ModelDirArgs, mld \in LogDirArgs :
                (CallRefresh(p, md, mld) /\ NoSuchDir(md)) =>
                    /\ pc'[p] = "idle"
                    /\ loc'[p].ret = ErrNotExist
                    /\ UNCHANGED <<catalog, conns>>
          /\ \A dk \in DiskIds :
                (RefreshBuild(p, dk) /\ RootListingFails(dk)) =>
                    /\ pc'[p] = "idle"
                    /\ loc'[p].ret = ErrList
                    /\ UNCHANGED <<catalog, conns>>]_vars

\* a Refresh has returned the missing-directory error while a registry with
\* open connections is installed
C5_Witness ==
    \E p \in Procs :
        /\ pc[p] = "idle"
        /\ loc[p].ret = ErrNotExist
        /\ modelLst # << >>
        /\ modelDir = sModels
        /\ \A k \in 1..Len(modelLst) : conns[modelLst[k].dbConn].closes = 0

\* ---------------------------------------------------------------------- C6
\* C6: a Refresh in its discovery and build phase does not hold the catalog
\* lock and its steps change no catalog field, and the lock is held only by
\* a caller inside a locked section, so that queries and Close can take it
\* while a Refresh builds.
C6_BuildUnlocked ==
    /\ [](\A p \in Procs :
            /\ pc[p] \in {"r_build", "r_lock"} => theLock # p
            /\ theLock = p => pc[p] \in Locked)
    /\ [][\A p \in Procs :
            (pc'[p] # pc[p] /\ (pc[p] = "r_build" \/ pc'[p] = "r_build"))
                => UNCHANGED <<catalog, theLock>>]_vars

\* a query that started while a Refresh was building has read the previous
\* registry in full and that Refresh is still building
C6_Witness ==
    \E p \in Procs, q \in Procs :
        /\ pc[p] = "r_build"
        /\ pc[q] = "q_ret"
        /\ loc[p].sid \in loc[q].during
        /\ loc[q].op = "allModelDigests"
        /\ Len(loc[q].res) = 2
        /\ loc[q].res = [i \in 1..Len(modelLst) |-> modelLst[i].digest]

\* ---------------------------------------------------------------------- C7
\* C7: no connection close performed by Refresh happens while the catalog
\* lock is held: a Refresh that closes a connection of the previous
\* sequence has released the lock before.
C7_CloseAfterUnlock ==
    \A p \in Procs : pc[p] = "r_close" => theLock # p

\* ---------------------------------------------------------------------- C8
\* C8: Refresh returns the first close error of the previous sequence, and
\* no error only if every close of a previous connection succeeded.
C8_RefreshReturnsCloseError ==
    \A p \in Procs : pc[p] = "r_unlock" => loc[p].ret = FirstCloseErr(loc[p].snap)

\* ---------------------------------------------------------------------- C9
\* C9: Close calls close once for every entry of the live sequence, also
\* after a close that failed, leaves the entry sequence empty and returns
\* the error of the first failing close in registry order, or no error.
C9_CloseAll ==
    \A p \in Procs :
        pc[p] = "c_unlock" =>
            /\ loc[p].ncl = Len(loc[p].snap)
            /\ \A c \in 1..Len(conns) :
                  conns[c].closes >=
                      Cardinality({k \in 1..Len(loc[p].snap) : loc[p].snap[k].dbConn = c})
            /\ modelLst = << >>
            /\ loc[p].ret = FirstCloseErr(loc[p].snap)

\* Close has closed two entries with different connections that both fail
\* to close
C9_Witness ==
    \E p \in Procs :
        /\ pc[p] = "c_unlock"
        /\ Len(loc[p].snap) = 2
        /\ loc[p].snap[1].dbConn # loc[p].snap[2].dbConn
        /\ conns[loc[p].snap[1].dbConn].closeFails
        /\ conns[loc[p].snap[2].dbConn].closeFails
        /\ loc[p].ret = CloseErr(loc[p].snap[1].dbConn)

\* --------------------------------------------------------------------- C10
\* C10: a Close that follows a Close with no Refresh installation in
\* between finds the sequence empty, calls close on no connection, returns
\* no error and leaves the sequence empty, as the first Close did.
C10_IdempotentClose ==
    \A p \in Procs :
        /\ pc[p] = "c_unlock" => modelLst = << >>
        /\ (pc[p] \in {"c_close", "c_clear", "c_unlock"} /\ loc[p].afterClose) =>
              /\ loc[p].snap = << >>
              /\ loc[p].ncl = 0
              /\ pc[p] # "c_close"
              /\ loc[p].firstErr = NoErr
              /\ loc[p].ret = NoErr

\* the second of two consecutive Close calls is about to return and the
\* first one returned a close error
C10_Witness ==
    \E p \in Procs :
        /\ pc[p] = "c_unlock"
        /\ loc[p].afterClose
        /\ loc[p].prevRet # NoErr

\* --------------------------------------------------------------------- C11
\* store file f lists a model of that digest and name
ListsModel(f, digest, name) ==
    \E r \in 1..Len(f.dicLst) :
        f.dicLst[r].Digest = digest /\ f.dicLst[r].Name = name

\* C11: a Refresh whose walk of the model directory reports no error goes
\* on to install and returns nil whatever the stores answer, and the
\* registry it installs has one entry for each digest of the successfully
\* probed stores and no other entry, every entry carrying a connection to a
\* store that opened, passed the schema check and lists that model.
C11_ResilientPartialFailure ==
    /\ [](\A p \in Procs :
            pc[p] = "r_unlock" =>
               LET dk == loc[p].disk
               IN /\ loc[p].ret = NoErr
                  /\ {modelLst[k].digest : k \in 1..Len(modelLst)} = GoodDigests(dk)
                  /\ Len(modelLst) = Cardinality(GoodDigests(dk))
                  /\ \A k \in 1..Len(modelLst) :
                        LET f == conns[modelLst[k].dbConn].store
                        IN /\ f.openOk /\ f.schemaOk /\ ~f.dicErr /\ ~f.langErr
                           /\ ListsModel(f, modelLst[k].digest, modelLst[k].name))
    /\ [][\A p \in Procs, dk \in DiskIds :
            (RefreshBuild(p, dk) /\ ~Walk(dk).err) => pc'[p] = "r_lock"]_vars

\* a Refresh has installed the one model of the valid store of a disk that
\* also holds a store that cannot be opened and an incompatible store
C11_Witness ==
    \E p \in Procs :
        /\ pc[p] = "r_unlock"
        /\ loc[p].ret = NoErr
        /\ \E i \in 1..Len(loc[p].pathLst) : ~FileAt(loc[p].disk, loc[p].pathLst[i]).openOk
        /\ \E c \in 1..Len(conns) : ~conns[c].store.schemaOk
        /\ Len(modelLst) = 1
        /\ conns[modelLst[1].dbConn].path = pB

\* --------------------------------------------------------------------- C12
\* C12: the connection of a store that failed the schema version check has
\* been closed exactly once and no model list read and no language read
\* was ever sent on it.
C12_IncompatibleStoreSkipped ==
    \A c \in 1..Len(conns) :
        ~conns[c].store.schemaOk =>
            /\ conns[c].closes = 1
            /\ conns[c].reads = 0

\* --------------------------------------------------------------------- C13
\* store file f passes the schema check but its model list is empty or
\* cannot be read, or its languages cannot be read
RejectedStore(f) ==
    f.schemaOk /\ (f.dicErr \/ f.dicLst = << >> \/ f.langErr)

\* some entry of lst carries connection c
Carries(lst, c) == \E k \in 1..Len(lst) : lst[k].dbConn = c

\* C13: the connection of a store that passed the schema check but gave no
\* model list or no languages has been closed once, was closed before any
\* later connection was opened, and is carried by no entry of the registry
\* or of a sequence a Refresh has built.
C13_RejectedStoreClosed ==
    \A c \in 1..Len(conns) :
        RejectedStore(conns[c].store) =>
            /\ conns[c].closes = 1
            /\ conns[c].closedAt = c
            /\ ~Carries(modelLst, c)
            /\ \A p \in Procs : ~Carries(loc[p].mLst, c)

\* a Refresh has probed an empty store, a store without languages and a
\* store without model list, and waits for the lock
C13_Witness ==
    \E p \in Procs :
        /\ pc[p] = "r_lock"
        /\ \E c \in 1..Len(conns) : conns[c].store.dicLst = << >> /\ conns[c].closes = 1
        /\ \E c \in 1..Len(conns) : conns[c].store.langErr /\ conns[c].closes = 1
        /\ \E c \in 1..Len(conns) : conns[c].store.dicErr /\ conns[c].closes = 1

\* --------------------------------------------------------------------- C14
\* the store paths of disk dk that the walk reports without error
ReadableStorePaths(dk) ==
    {Disks[dk][i].path : i \in {j \in 1..Len(Disks[dk]) :
        ~Disks[dk][j].walkErr /\ EqualFold(Ext(Disks[dk][j].path), sSqliteExt)}}

\* C14: a Refresh whose walk reports no error for the model directory
\* itself goes on to install, with every store path that the walk reports
\* without error in its path list, also when the walk reports an error for
\* a path below the model directory.
C14_SubPathFailureSkipped ==
    [][\A p \in Procs, dk \in DiskIds :
          (RefreshBuild(p, dk) /\ ~RootListingFails(dk)) =>
              /\ pc'[p] = "r_lock"
              /\ {loc'[p].pathLst[i] : i \in 1..Len(loc'[p].pathLst)}
                    = ReadableStorePaths(dk)]_vars

\* --------------------------------------------------------------------- C15
\* the codes of a language list
Codes(langs) == {langs[i] : i \in 1..Len(langs)}

\* the language list langs with the code defLang moved to the front
DefaultFirst(langs, defLang) ==
    IF defLang \in Codes(langs)
    THEN <<defLang>> \o SelectSeq(langs, LAMBDA x : x # defLang)
    ELSE langs

\* the lists without repetition of the language codes of a store
LangLists ==
    {s \in UNION {[1..n -> Codes(Langs)] : n \in 0..Len(Langs)} :
        \A i, j \in 1..Len(s) : s[i] = s[j] => i = j}

\* C15: the language codes of every entry, in the registry and in a
\* sequence a Refresh has built, are the language list of the entry's store
\* with the default language of the model row moved to the front and the
\* other codes in their original order, and the store's list unchanged when
\* it does not hold the default language; the same for every list without
\* repetition of these codes.
C15_DefaultLanguageFirst ==
    /\ \A lst \in {modelLst} \cup {loc[p].mLst : p \in Procs} :
          \A k \in 1..Len(lst) :
              lst[k].langCodes =
                  DefaultFirst(conns[lst[k].dbConn].store.langs, lst[k].defLang)
    /\ \A langs \in LangLists, d \in Codes(Langs) \cup {"xx"} :
          LangCodes(langs, 1, d, << >>) = DefaultFirst(langs, d)

\* the registry holds an entry whose default language the store does not
\* list, and the registry before held one with default fr
C15_Witness ==
    /\ \E k \in 1..Len(modelLst) :
          /\ modelLst[k].defLang = "xx"
          /\ modelLst[k].langCodes = <<"en", "fr", "de">>
    /\ \E k \in 1..Len(lastCommit.cat.modelLst) :
          /\ lastCommit.cat.modelLst[k].defLang = "fr"
          /\ lastCommit.cat.modelLst[k].langCodes = <<"fr", "en", "de">>

\* --------------------------------------------------------------------- C16
\* the smallest member of a set of indexes
MinIndex(S) == CHOOSE k \in S : \A j \in S : k <= j

\* what the lookup op of token dn over lst is to return
LookupResult(op, lst, dn) ==
    LET byDigest == {k \in 1..Len(lst) : lst[k].digest = dn}
        byName == {k \in 1..Len(lst) : lst[k].name = dn}
    IN IF byDigest # {} THEN <<MinIndex(byDigest) - 1, TRUE>>
       ELSE IF op = "indexByDigestOrName" /\ byName # {}
            THEN <<MinIndex(byName) - 1, TRUE>>
            ELSE <<0, FALSE>>

\* C16: indexByDigestOrName returns the index (from zero) of the entry whose
\* digest equals the token if there is one, also when an earlier entry has
\* the token as its name, else the smallest index of an entry whose name
\* equals the token, else (0, false); indexByDigest returns the index of the
\* entry with that digest or (0, false).
C16_LookupFallback ==
    \A p \in Procs :
        (pc[p] = "q_ret" /\ loc[p].op \in Lookups) =>
            loc[p].res = LookupResult(loc[p].op, modelLst, loc[p].digest)

\* indexByDigestOrName of D2 has returned the second entry, whose digest is
\* D2, over a registry whose first entry has the name D2
C16_Witness ==
    \E p \in Procs :
        /\ pc[p] = "q_ret"
        /\ loc[p].op = "indexByDigestOrName"
        /\ loc[p].digest = "D2"
        /\ Len(modelLst) >= 2
        /\ modelLst[1].name = "D2"
        /\ modelLst[2].digest = "D2"
        /\ loc[p].res = <<1, TRUE>>

\* --------------------------------------------------------------------- C17
\* the connections of the entry sequence that holds connection c: the
\* connections one Refresh opened and installed
SequenceOf(c) ==
    {d \in 1..Len(conns) : conns[d].batch = conns[c].batch /\ conns[d].installed}

\* C17: a Refresh or a Close that is about to close a connection of the
\* live sequence finds no connection of that sequence closed by the locked
\* section of another Refresh or Close invocation, running or over; and a
\* teardown in progress is the one of the caller holding the lock.
C17_OneTeardownPerSequence ==
    /\ \A p \in Procs :
          (pc[p] \in {"r_close", "c_close"} /\ loc[p].k <= Len(modelLst)) =>
              \A d \in SequenceOf(modelLst[loc[p].k].dbConn) :
                  conns[d].tearer \in {NoProc, p}
    /\ \A c \in 1..Len(conns) :
          conns[c].tearer \in Procs => theLock = conns[c].tearer

\* a Close has closed the two connections of the live sequence while a
\* Refresh that built its sequence before waits for the lock
C17_Witness ==
    \E p \in Procs, q \in Procs :
        /\ pc[p] = "c_unlock"
        /\ loc[p].ncl >= 2
        /\ pc[q] = "r_lock"
        /\ \E c \in 1..Len(conns) : conns[c].tearer = p

\* --------------------------------------------------------------------- C18
\* C18: whenever no Refresh is in progress, every connection that is not
\* closed is carried by an entry of the registry.
C18_NoConnectionLeak ==
    (\A p \in Procs :
        pc[p] \notin {"r_build", "r_lock", "r_close", "r_install", "r_unlock"}) =>
        \A c \in 1..Len(conns) :
            conns[c].closes = 0 => Carries(modelLst, c)

\* --------------------------------------------------------------------- C19
\* a log directory that is empty, or that does not exist
NoLogDir(mld) == mld = sEmpty \/ mld \notin ExistingDirs

\* C19: whenever the lock is free every entry of the registry has the log
\* directory and the log flag of the catalog; and a Refresh called with an
\* empty or missing log directory that is about to return has returned nil
\* with logging disabled on the catalog and on every entry.
C19_LogDirConsistent ==
    /\ theLock = NoProc =>
          \A k \in 1..Len(modelLst) :
              /\ modelLst[k].logDir = modelLogDir
              /\ modelLst[k].isLogDir = isLogDirEnabled
    /\ \A p \in Procs :
          (pc[p] = "r_unlock" /\ NoLogDir(loc[p].modelLogDir)) =>
              /\ loc[p].ret = NoErr
              /\ ~isLogDirEnabled
              /\ modelLogDir = loc[p].modelLogDir
              /\ \A k \in 1..Len(modelLst) : ~modelLst[k].isLogDir

\* a Refresh without log directory has replaced the registry of a Refresh
\* with log directory, built while that registry was live
C19_Witness ==
    \E p \in Procs :
        /\ pc[p] = "r_unlock"
        /\ NoLogDir(loc[p].modelLogDir)
        /\ Len(modelLst) > 0
        /\ lastCommit.kind = "Refresh"
        /\ lastCommit.cat.isLogDirEnabled
        /\ Len(lastCommit.cat.modelLst) > 0
        /\ loc[p].ncl > 0

\* --------------------------------------------------------------------- C20
\* every entry of lst carries a connection on which Close() was never called
AllOpen(lst) == \A k \in 1..Len(lst) : conns[lst[k].dbConn].closes = 0

\* C20: whenever the lock is free every entry of the registry carries an
\* open connection, and so does every entry of the registry a Refresh has
\* just installed.
C20_LiveConnectionsOpen ==
    /\ theLock = NoProc => AllOpen(modelLst)
    /\ \A p \in Procs : pc[p] = "r_unlock" => AllOpen(modelLst)

\* with the lock free, the registry holds the model of the valid store of
\* the disk with an incompatible store, installed in place of a registry
\* that was torn down
C20_Witness ==
    /\ theLock = NoProc
    /\ Len(modelLst) = 1
    /\ conns[modelLst[1].dbConn].path = pB
    /\ \E c \in 1..Len(conns) :
          /\ ~conns[c].store.schemaOk
          /\ conns[c].batch = conns[modelLst[1].dbConn].batch
    /\ \E c \in 1..Len(conns) : conns[c].tearer = TornDown

====
